---- MODULE Spec2Model ----
(***************************************************************************)
(* Model of neetcode_150_gpt/fix_tags.py: the tag normalizer               *)
(* (normalize_tag_cell), the per-file row transformation                   *)
(* (process_csv_file) and the directory driver (process_folder).           *)
(*                                                                         *)
(* A Python str is a sequence of one-character strings.  A CSV file is the *)
(* sequence of rows csv.reader yields for it, a row a sequence of cells.   *)
(* A file name is a sequence of characters as well, so that Path.stem,     *)
(* Path.with_name, the "*.csv" glob and sorted() are computed on the       *)
(* characters.                                                             *)
(***************************************************************************)
EXTENDS Integers, Sequences, FiniteSets, TLC

VARIABLES
    cell,        \* normalizer run: the argument of normalize_tag_cell
    out,         \* normalizer run: its result
    again,       \* normalizer run: the result of normalizing `out` once more
    npc,         \* normalizer run: "start" | "done" | "redone"
    rows,        \* file run: list(reader)
    fixed_rows,  \* file run: the rows handed to writer.writerows
    fpc,         \* file run: "read" | "written"
    fs,          \* folder run: the directory, name -> entry
    fs0,         \* folder run: the directory when the run started
    files,       \* folder run: sorted(root.glob("*.csv")), as names
    idx,         \* folder run: position of the for loop in `files`
    report,      \* folder run: the report list
    readlog,     \* folder run: per loop step, the rows the step read (or NoRows)
    writelog,    \* folder run: per loop step, the name the step opened for writing (or NoName)
    dpc          \* folder run: "loop" | "printed"

vars == <<cell, out, again, npc, rows, fixed_rows, fpc,
          fs, fs0, files, idx, report, readlog, writelog, dpc>>

normVars == <<cell, out, again, npc>>
fileVars == <<rows, fixed_rows, fpc>>
dirVars  == <<fs, fs0, files, idx, report, readlog, writelog, dpc>>

----------------------------------------------------------------------------
(* Characters and strings                                                  *)

\* Longest enumerated argument of normalize_tag_cell.
MaxLen == 5

\* U+2102 DOUBLE-STRUCK CAPITAL C, one of the uppercase characters (category
\* Lu, str.isupper() true) that have no lowercase form: str.lower() keeps it.
DoubleStruckC == "U+2102"

\* The characters the enumerated arguments are built from.
Alphabet == {"a", "A", DoubleStruckC, " ", "\t", ","}

\* What \s and str.strip() treat as whitespace (the members the model uses).
Whitespace == {" ", "\t", "\n"}

UpperChars == <<"A", "B", "C", "D", "E", "F", "G", "H", "I", "J", "K", "L", "M",
                "N", "O", "P", "Q", "R", "S", "T", "U", "V", "W", "X", "Y", "Z">>
LowerChars == <<"a", "b", "c", "d", "e", "f", "g", "h", "i", "j", "k", "l", "m",
                "n", "o", "p", "q", "r", "s", "t", "u", "v", "w", "x", "y", "z">>

\* Python's None, as an argument that is not a str.
None == <<"<None>">>

IsSpace(c) == c \in Whitespace

\* The uppercase characters str.lower() maps to another character.
HasLower(c) == \E i \in 1..Len(UpperChars) : UpperChars[i] = c

Tail0(s, n) == SubSeq(s, n + 1, Len(s))

\* Number of leading whitespace characters of s.
RECURSIVE LeadWs(_)
LeadWs(s) ==
    IF s # <<>> /\ IsSpace(Head(s)) THEN 1 + LeadWs(Tail(s)) ELSE 0

\* Number of trailing whitespace characters of s.
RECURSIVE TrailWs(_)
TrailWs(s) ==
    IF s # <<>> /\ IsSpace(s[Len(s)])
    THEN 1 + TrailWs(SubSeq(s, 1, Len(s) - 1))
    ELSE 0

\* str.strip()
Strip(s) ==
    LET l == LeadWs(s)
    IN  IF l = Len(s) THEN <<>> ELSE SubSeq(s, l + 1, Len(s) - TrailWs(s))

\* Index of the first character of s satisfying the test, 0 if none.
FirstComma(s) ==
    IF \E i \in 1..Len(s) : s[i] = ","
    THEN CHOOSE i \in 1..Len(s) : s[i] = "," /\ \A j \in 1..(i - 1) : s[j] # ","
    ELSE 0

FirstWs(s) ==
    IF \E i \in 1..Len(s) : IsSpace(s[i])
    THEN CHOOSE i \in 1..Len(s) : IsSpace(s[i]) /\ \A j \in 1..(i - 1) : ~IsSpace(s[j])
    ELSE 0

\* re.split(r"\s*,\s*", s): the leftmost match starts at the whitespace run
\* that ends at the first comma and takes all the whitespace after it.
RECURSIVE ReSplitComma(_)
ReSplitComma(s) ==
    LET c == FirstComma(s)
    IN  IF c = 0 THEN <<s>>
        ELSE LET before == SubSeq(s, 1, c - 1)
                 after  == Tail0(s, c)
             IN  <<SubSeq(before, 1, Len(before) - TrailWs(before))>>
                 \o ReSplitComma(Tail0(after, LeadWs(after)))

\* re.split(r"\s+", s)
RECURSIVE ReSplitSpace(_)
ReSplitSpace(s) ==
    LET w == FirstWs(s)
    IN  IF w = 0 THEN <<s>>
        ELSE LET after == Tail0(s, w - 1)
             IN  <<SubSeq(s, 1, w - 1)>> \o ReSplitSpace(Tail0(after, LeadWs(after)))

\* [p for p in ... if p != ""]
RECURSIVE NonEmpty(_)
NonEmpty(ps) ==
    IF ps = <<>> THEN <<>>
    ELSE (IF Head(ps) = <<>> THEN <<>> ELSE <<Head(ps)>>) \o NonEmpty(Tail(ps))

\* re.sub(r"\s+", " ", s)
RECURSIVE CollapseWs(_)
CollapseWs(s) ==
    IF s = <<>> THEN <<>>
    ELSE IF IsSpace(Head(s)) THEN <<" ">> \o CollapseWs(Tail0(s, LeadWs(s)))
    ELSE <<Head(s)>> \o CollapseWs(Tail(s))

\* str.lower(), one character
LowerChar(c) ==
    IF HasLower(c)
    THEN LowerChars[CHOOSE i \in 1..Len(UpperChars) : UpperChars[i] = c]
    ELSE c

\* str.lower()
Lower(s) == [i \in 1..Len(s) |-> LowerChar(s[i])]

\* str.replace(" ", "_")
ReplaceSpace(s) == [i \in 1..Len(s) |-> IF s[i] = " " THEN "_" ELSE s[i]]

\* " ".join(ts)
RECURSIVE Join(_)
Join(ts) ==
    IF ts = <<>> THEN <<>>
    ELSE IF Len(ts) = 1 THEN Head(ts)
    ELSE Head(ts) \o <<" ">> \o Join(Tail(ts))

----------------------------------------------------------------------------
(* normalize_tag_cell                                                      *)

\* The two-stage split: on commas, and on whitespace if that left nothing.
PartsOf(s) ==
    LET parts == NonEmpty(ReSplitComma(s))
    IN  IF parts = <<>> THEN NonEmpty(ReSplitSpace(Strip(s))) ELSE parts

CollapsePartNoStrip(p) == CollapseWs(p)

\* p = re.sub(r"\s+", " ", p.strip())
CollapsePart(p) == CollapseWs(Strip(p))

TagOfNoLower(p) == ReplaceSpace(p)

\* p = p.lower().replace(" ", "_")
TagOf(p) == ReplaceSpace(Lower(p))

\* The loop that builds `cleaned`.
RECURSIVE Cleaned(_)
Cleaned(parts) ==
    IF parts = <<>> THEN <<>>
    ELSE LET p == CollapsePart(Head(parts))
         IN  (IF p = <<>> THEN <<>> ELSE <<TagOf(p)>>) \o Cleaned(Tail(parts))

\* A deduplication that keeps the last occurrence of each tag.
RECURSIVE DedupeKeepLast(_, _)
DedupeKeepLast(ts, seen) ==
    IF ts = <<>> THEN <<>>
    ELSE IF \E i \in 2..Len(ts) : ts[i] = Head(ts)
         THEN DedupeKeepLast(Tail(ts), seen)
         ELSE <<Head(ts)>> \o DedupeKeepLast(Tail(ts), seen)

\* The loop that builds `deduped`; `seen` is the set of tags met so far.
RECURSIVE Dedupe(_, _)
Dedupe(ts, seen) ==
    IF ts = <<>> THEN <<>>
    ELSE IF Head(ts) \in seen
         THEN Dedupe(Tail(ts), seen)
         ELSE <<Head(ts)>> \o Dedupe(Tail(ts), seen \cup {Head(ts)})

normalize_tag_cell(c) ==
    IF c = None THEN <<>>
    ELSE Join(Dedupe(Cleaned(PartsOf(c)), {}))

----------------------------------------------------------------------------
(* The normalizer applied to one argument, and to its own result           *)

TwoPointers ==
    <<"T", "w", "o", " ", "P", "o", "i", "n", "t", "e", "r", "s", " ",
      "S", "l", "i", "d", "i", "n", "g", " ", "W", "i", "n", "d", "o", "w">>

ArrayHashMap ==
    <<"A", "r", "r", "a", "y", ",", " ", "H", "a", "s", "h", " ", "M", "a", "p",
      ",", " ", "a", "r", "r", "a", "y">>

\* Arguments longer than MaxLen that the documentation names, and one whose
\* two parts clean to the same tag.
Examples ==
    { TwoPointers, ArrayHashMap, <<"a", " ", "b", ",", "a", "_", "b">>,
      <<" ", "\n", "\t">> }

Strings == UNION { [1..n -> Alphabet] : n \in 0..MaxLen }

Cells == Strings \cup Examples \cup {None}

NormIdle == cell = <<>> /\ out = <<>> /\ again = <<>> /\ npc = "idle"
FileIdle == rows = <<>> /\ fixed_rows = <<>> /\ fpc = "idle"
DirIdle ==
    /\ fs = <<>> /\ fs0 = <<>> /\ files = <<>> /\ idx = 0 /\ report = <<>>
    /\ readlog = <<>> /\ writelog = <<>> /\ dpc = "idle"

NormInit ==
    /\ cell \in Cells
    /\ out = <<>>
    /\ again = <<>>
    /\ npc = "start"
    /\ FileIdle
    /\ DirIdle

\* out = normalize_tag_cell(cell)
Normalize ==
    /\ npc = "start"
    /\ out' = normalize_tag_cell(cell)
    /\ npc' = "done"
    /\ UNCHANGED <<cell, again>>
    /\ UNCHANGED <<fileVars, dirVars>>

\* again = normalize_tag_cell(out): the normalizer run on a cell it produced,
\* as when a *_fixed.csv file is processed in its turn.
Renormalize ==
    /\ npc = "done"
    /\ again' = normalize_tag_cell(out)
    /\ npc' = "redone"
    /\ UNCHANGED <<cell, out>>
    /\ UNCHANGED <<fileVars, dirVars>>

NormNext == Normalize \/ Renormalize

SpecNorm == NormInit /\ [][NormNext]_vars

----------------------------------------------------------------------------
(* process_csv_file: the rows read and the rows written                    *)

\* Most rows of an enumerated file, the header included.
MaxRows == 2

\* Most cells of an enumerated row.
MaxCols == 2

TagsLower == <<"t", "a", "g", "s">>

\* The cells the enumerated files are built from: a header cell that names
\* the Tags column only after strip() and lower(), a cell no normalization
\* changes, and a cell the normalizer changes.
FileCells ==
    { <<" ", "T", "a", "g", "s">>, <<"x">>, <<"B", ",", " ", "a", " ", "b">> }

RowSet == UNION { [1..n -> FileCells] : n \in 0..MaxCols }

RowLists == UNION { [1..n -> RowSet] : n \in 0..MaxRows }

\* The for loop over enumerate(header) with its break; 1-based, 0 for None.
RECURSIVE TagsIdxFrom(_, _)
TagsIdxFrom(header, i) ==
    IF i > Len(header) THEN 0
    ELSE IF Lower(Strip(header[i])) = TagsLower THEN i
    ELSE TagsIdxFrom(header, i + 1)

TagsIdx(header) == TagsIdxFrom(header, 1)

\* A row loop body that normalizes every cell of the row.
FixRowAll(r, tags_idx) == [j \in 1..Len(r) |-> normalize_tag_cell(r[j])]

\* The body of the loop over rows[1:]; tags_idx is 1-based here, so the
\* guard tags_idx < len(r) reads tags_idx <= Len(r).
FixRow(r, tags_idx) ==
    IF tags_idx <= Len(r)
    THEN [r EXCEPT ![tags_idx] = normalize_tag_cell(r[tags_idx])]
    ELSE r

\* What process_csv_file writes for the rows it read: nothing for an empty
\* file, the rows themselves without a Tags column, else the header and the
\* fixed data rows.
FixedRows(rs) ==
    IF rs = <<>> THEN <<>>
    ELSE LET header == rs[1]
             tags_idx == TagsIdx(header)
         IN  IF tags_idx = 0 THEN rs
             ELSE <<header>> \o [k \in 1..(Len(rs) - 1) |-> FixRow(rs[k + 1], tags_idx)]

FileInit ==
    /\ rows \in RowLists
    /\ fixed_rows = <<>>
    /\ fpc = "read"
    /\ NormIdle
    /\ DirIdle

\* process_csv_file from the rows read to the rows written.
ProcessRows ==
    /\ fpc = "read"
    /\ fixed_rows' = FixedRows(rows)
    /\ fpc' = "written"
    /\ UNCHANGED rows
    /\ UNCHANGED <<normVars, dirVars>>

FileNext == ProcessRows

SpecFile == FileInit /\ [][FileNext]_vars

----------------------------------------------------------------------------
(* File names: Path.stem, Path.with_name, glob("*.csv"), sorted()          *)

DotCsv == <<".", "c", "s", "v">>

FixedCsv == <<"_", "f", "i", "x", "e", "d">> \o DotCsv

\* Index of the last "." of a name, 0 if there is none.
LastDot(n) ==
    IF \E i \in 1..Len(n) : n[i] = "."
    THEN CHOOSE i \in 1..Len(n) : n[i] = "." /\ \A j \in (i + 1)..Len(n) : n[j] # "."
    ELSE 0

\* Path.stem: the name without its last suffix; a "." that starts or ends
\* the name begins no suffix.
Stem(n) ==
    LET i == LastDot(n)
    IN  IF 1 < i /\ i < Len(n) THEN SubSeq(n, 1, i - 1) ELSE n

\* out_path = path.with_name(path.stem + "_fixed.csv"), as a name
OutName(n) == Stem(n) \o FixedCsv

\* root.glob("*.csv"): the names that end in ".csv"
MatchesCsv(n) ==
    Len(n) >= Len(DotCsv) /\ SubSeq(n, Len(n) - Len(DotCsv) + 1, Len(n)) = DotCsv

\* The code point order of the characters file names are built from.
Code(c) ==
    IF c = "." THEN 46
    ELSE IF c = "_" THEN 95
    ELSE 96 + (CHOOSE i \in 1..Len(LowerChars) : LowerChars[i] = c)

\* a < b for two names, as sorted() compares the paths of one directory.
RECURSIVE LexLess(_, _)
LexLess(a, b) ==
    IF b = <<>> THEN FALSE
    ELSE IF a = <<>> THEN TRUE
    ELSE IF Head(a) = Head(b) THEN LexLess(Tail(a), Tail(b))
    ELSE Code(Head(a)) < Code(Head(b))

\* sorted(S) for a set of names
RECURSIVE SortNames(_)
SortNames(S) ==
    IF S = {} THEN <<>>
    ELSE LET m == CHOOSE x \in S : \A y \in S \ {x} : LexLess(x, y)
         IN  <<m>> \o SortNames(S \ {m})

----------------------------------------------------------------------------
(* The directory                                                           *)

\* Most entries of the directory when the run starts.
MaxFiles == 3

ACsv == <<"a">> \o DotCsv
BCsv == <<"b">> \o DotCsv
AFixedCsv == <<"a">> \o FixedCsv
CTxt == <<"c", ".", "t", "x", "t">>

\* The names an enumerated directory may hold at the start: two unrelated
\* CSV files, a CSV file named like the output of another, a name that is
\* all suffix, and a file the glob does not match.
InitNames == { ACsv, BCsv, AFixedCsv, DotCsv, CTxt }

AllNames == InitNames \cup { OutName(n) : n \in { m \in InitNames : MatchesCsv(m) } }

NoRows == <<"<no rows>">>
NoName == <<"<no name>">>

Absent == [kind |-> "absent", rows |-> <<>>]

\* A directory: open() raises for reading and for writing.
Dir == [kind |-> "dir", rows |-> <<>>]

\* A file that is not UTF-8: reading raises, writing replaces it.
Garbled == [kind |-> "garbled", rows |-> <<>>]

File(rs) == [kind |-> "file", rows |-> rs]

\* The contents of the enumerated files: one with a Tags column whose cell
\* the normalizer changes, and changes again when applied to its result, and
\* one without a Tags column.
DirContents ==
    { << << <<" ", "T", "a", "g", "s">> >>, << <<"B", ",", " ", "a", " ", "b">> >> >>,
      << << <<"x">> >> >> }

Entries == { Absent, Dir, Garbled } \cup { File(rs) : rs \in DirContents }

Directories ==
    { [n \in AllNames |-> IF n \in InitNames THEN g[n] ELSE Absent] :
        g \in { h \in [InitNames -> Entries] :
                  Cardinality({ n \in InitNames : h[n] # Absent }) <= MaxFiles } }

\* What the operating system may do to the write of one file: let it
\* through, refuse the open(), or fail once `keep` rows reached the file
\* (at the latest when the file is closed).
Envs ==
    { [o |-> "ok", keep |-> 0], [o |-> "openfail", keep |-> 0] }
      \cup { [o |-> "writefail", keep |-> k] : k \in 0..MaxRows }

Min(a, b) == IF a < b THEN a ELSE b

----------------------------------------------------------------------------
(* process_folder                                                          *)

\* One pass of the for loop body on the directory f: process_csv_file(name)
\* inside try/except, and the report entry it leaves.  `read` is what
\* list(reader) returned and `wrote` the name opened for writing, if any.
StepResult(f, name, env) ==
    LET e == f[name]
        outn == OutName(name)
    IN  IF e.kind # "file"
        THEN [fs |-> f, entry |-> <<name, "error: read", <<>>>>,
              read |-> NoRows, wrote |-> NoName]
        ELSE LET fixed == FixedRows(e.rows)
             IN  IF f[outn].kind = "dir" \/ env.o = "openfail"
                 THEN [fs |-> f, entry |-> <<name, "error: open", <<>>>>,
                       read |-> e.rows, wrote |-> NoName]
                 ELSE IF env.o = "writefail"
                 THEN [fs |-> [f EXCEPT ![outn] =
                                  File(SubSeq(fixed, 1, Min(env.keep, Len(fixed))))],
                       entry |-> <<name, "error: write", <<>>>>,
                       read |-> e.rows, wrote |-> outn]
                 ELSE [fs |-> [f EXCEPT ![outn] = File(fixed)],
                       entry |-> <<name, "ok", outn>>,
                       read |-> e.rows, wrote |-> outn]

\* sorted(root.glob("*.csv")) on the directory f
Enumerate(f) == SortNames({ n \in DOMAIN f : f[n] # Absent /\ MatchesCsv(n) })

\* process_folder on an existing directory, after report = [] and the
\* enumeration, which sorted() completes before the loop starts.
DirInit ==
    /\ fs0 \in Directories
    /\ fs = fs0
    /\ files = Enumerate(fs0)
    /\ idx = 0
    /\ report = <<>>
    /\ readlog = <<>>
    /\ writelog = <<>>
    /\ dpc = "loop"
    /\ NormIdle
    /\ FileIdle

\* One iteration of the for loop.
Step ==
    /\ dpc = "loop"
    /\ idx < Len(files)
    /\ \E env \in Envs :
          LET r == StepResult(fs, files[idx + 1], env)
          IN  /\ fs' = r.fs
              /\ report' = Append(report, r.entry)
              /\ readlog' = Append(readlog, r.read)
              /\ writelog' = Append(writelog, r.wrote)
    /\ idx' = idx + 1
    /\ UNCHANGED <<fs0, files, dpc>>
    /\ UNCHANGED <<normVars, fileVars>>

\* The loop is over: the report is printed.
PrintReport ==
    /\ dpc = "loop"
    /\ idx = Len(files)
    /\ dpc' = "printed"
    /\ UNCHANGED <<fs, fs0, files, idx, report, readlog, writelog>>
    /\ UNCHANGED <<normVars, fileVars>>

DirNext == Step \/ PrintReport

SpecDir == DirInit /\ [][DirNext]_vars

----------------------------------------------------------------------------
(* Properties of normalize_tag_cell (checked under SpecNorm)               *)

\* s.split(" "): the tags of a result, every single space a separator.
RECURSIVE SplitOnSpace(_)
SplitOnSpace(s) ==
    IF \E i \in 1..Len(s) : s[i] = " "
    THEN LET i == CHOOSE k \in 1..Len(s) : s[k] = " " /\ \A j \in 1..(k - 1) : s[j] # " "
         IN  <<SubSeq(s, 1, i - 1)>> \o SplitOnSpace(Tail0(s, i))
    ELSE <<s>>

TagsIn(s) == IF s = <<>> THEN <<>> ELSE SplitOnSpace(s)

Range(q) == { q[i] : i \in 1..Len(q) }

FirstIdx(q, x) == CHOOSE i \in 1..Len(q) : q[i] = x /\ \A j \in 1..(i - 1) : q[j] # x

\* str.isupper() of one character
IsUpper(c) == HasLower(c) \/ c = DoubleStruckC

AllSpace(s) == \A i \in 1..Len(s) : IsSpace(s[i])

HasComma(s) == \E i \in 1..Len(s) : s[i] = ","

\* C1: the normalizer is idempotent: normalizing a result once more gives
\* the same result, for every argument.
C1_Idempotent == npc = "redone" => again = out

\* C4: a cell without a comma is split on runs of whitespace and every
\* token becomes a tag of its own; "Two Pointers Sliding Window" gives the
\* four tags "two pointers sliding window".
C4_WhitespaceFallback ==
    (npc = "done" /\ cell # None /\ ~HasComma(cell)) =>
        /\ TagsIn(out) = Dedupe(Cleaned(NonEmpty(ReSplitSpace(Strip(cell)))), {})
        /\ cell = TwoPointers => Len(TagsIn(out)) = 4

\* C6: the tags of the result are pairwise distinct, they are exactly the
\* cleaned tags of the argument, and they stand in the order in which each
\* cleaned tag first occurs; "Array, Hash Map, array" gives "array hash_map".
C6_OrderPreservingDedup ==
    (npc = "done" /\ cell # None) =>
        LET tags == TagsIn(out)
            cl == Cleaned(PartsOf(cell))
        IN  /\ \A i, j \in 1..Len(tags) : i # j => tags[i] # tags[j]
            /\ Range(tags) = Range(cl)
            /\ \A i, j \in 1..Len(tags) :
                  i < j => FirstIdx(cl, tags[i]) < FirstIdx(cl, tags[j])
            /\ cell = ArrayHashMap =>
                  out = <<"a", "r", "r", "a", "y", " ",
                          "h", "a", "s", "h", "_", "m", "a", "p">>

\* The documented example has run: two parts clean to the tag "array".
C6_Witness ==
    /\ npc = "done"
    /\ cell = ArrayHashMap
    /\ Len(Cleaned(PartsOf(cell))) = 3
    /\ Len(TagsIn(out)) = 2

\* "" or non-empty tags joined by one space each: no whitespace at either
\* end, and no whitespace other than single spaces between tags.
TagsSingleSpaced(s) ==
    \/ s = <<>>
    \/ /\ ~IsSpace(s[1])
       /\ ~IsSpace(s[Len(s)])
       /\ \A i \in 1..Len(s) : IsSpace(s[i]) => s[i] = " "
       /\ \A i \in 1..(Len(s) - 1) : ~(s[i] = " " /\ s[i + 1] = " ")

\* C7: every result is in canonical form: empty, or non-empty tags joined by
\* exactly one space, no tag holding whitespace or an uppercase letter.
C7_CanonicalForm ==
    npc = "done" =>
        /\ TagsSingleSpaced(out)
        /\ \A i \in 1..Len(out) : ~IsUpper(out[i])

\* C7 as amended: every result is empty or non-empty tags joined by exactly
\* one space, no tag holding whitespace, and str.lower() leaves the result
\* as it is (an uppercase character without a lowercase form is kept).
C7_CanonicalLowered ==
    /\ npc \in {"done", "redone"} => TagsSingleSpaced(out) /\ Lower(out) = out
    /\ npc = "redone" => TagsSingleSpaced(again) /\ Lower(again) = again
    /\ npc = "done" => \A i \in 1..Len(TagsIn(out)) : TagsIn(out)[i] # <<>>

\* An argument with a tab inside a tag, an uppercase letter and two tags.
C7_Witness ==
    /\ npc = "done"
    /\ cell # None
    /\ \E i \in 2..(Len(cell) - 1) :
          cell[i] = "\t" /\ ~IsSpace(cell[i - 1]) /\ cell[i - 1] # ","
                         /\ ~IsSpace(cell[i + 1]) /\ cell[i + 1] # ","
    /\ \E i \in 1..Len(cell) : HasLower(cell[i])
    /\ Len(TagsIn(out)) = 2

\* C8: None, the empty string and every string of whitespace only give "",
\* and every argument gives a string.
C8_EmptyForBlank ==
    npc = "done" =>
        /\ (cell = None \/ AllSpace(cell)) => out = <<>>
        /\ \A i \in 1..Len(out) : out[i] \in Alphabet \cup Range(LowerChars) \cup {"_"}

\* A non-empty argument of whitespace only has been normalized.
C8_Witness ==
    /\ npc = "done"
    /\ cell # None
    /\ Len(cell) >= 2
    /\ AllSpace(cell)
    /\ out = <<>>

\* C9: a comma is a separator only: no result contains a comma.
C9_NoCommaInResult == npc = "done" => ~HasComma(out)

----------------------------------------------------------------------------
(* Properties of process_csv_file (checked under SpecFile)                 *)

\* C3: only the cell under the first Tags header changes, and only in data
\* rows: as many rows out as in, each as long as it was, the header as it
\* was, every other cell as it was, the tag cell normalized; rows too short
\* to have the cell, and all rows when there is no Tags column, unchanged.
C3_OnlyTagCellsChange ==
    fpc = "written" =>
        LET isTags(c) == Lower(Strip(c)) = TagsLower
            header == rows[1]
            hasTags == rows # <<>> /\ \E j \in 1..Len(header) : isTags(header[j])
            i == CHOOSE j \in 1..Len(header) :
                    isTags(header[j]) /\ \A l \in 1..(j - 1) : ~isTags(header[l])
        IN  /\ Len(fixed_rows) = Len(rows)
            /\ \A k \in 1..Len(rows) : Len(fixed_rows[k]) = Len(rows[k])
            /\ rows # <<>> => fixed_rows[1] = rows[1]
            /\ \A k \in 2..Len(rows) : \A j \in 1..Len(rows[k]) :
                  fixed_rows[k][j] =
                      IF hasTags /\ j = i
                      THEN normalize_tag_cell(rows[k][j])
                      ELSE rows[k][j]
            /\ ~hasTags => fixed_rows = rows

\* A data row whose tag cell, in the second column, was rewritten next to a
\* cell the normalizer would have changed too.
C3_Witness ==
    /\ fpc = "written"
    /\ Len(rows) = 2
    /\ TagsIdx(rows[1]) = 2
    /\ Len(rows[2]) = 2
    /\ fixed_rows[2][2] # rows[2][2]
    /\ normalize_tag_cell(rows[2][1]) # rows[2][1]

----------------------------------------------------------------------------
(* Properties of process_folder (checked under SpecDir)                    *)

Processed == { files[k] : k \in 1..idx }

Written == { writelog[k] : k \in 1..Len(writelog) } \ {NoName}

IsError(status) == status \in {"error: read", "error: open", "error: write"}

\* The rest of the loop, from position i on the directory f, with the
\* operating system answering step k by E[k]: the entries appended and the
\* directory left.
RECURSIVE RunRest(_, _, _)
RunRest(f, i, E) ==
    IF i > Len(files) THEN [fs |-> f, entries |-> <<>>]
    ELSE LET r == StepResult(f, files[i], E[i])
             rest == RunRest(r.fs, i + 1, E)
         IN  [fs |-> rest.fs, entries |-> <<r.entry>> \o rest.entries]

\* The report has one entry per enumerated file, in sorted order, "ok" with
\* the output name or an error with an empty one.
ReportComplete ==
    dpc = "printed" =>
        /\ Len(report) = Len(files)
        /\ \A k \in 1..Len(files) :
              /\ report[k][1] = files[k]
              /\ \/ report[k][2] = "ok" /\ report[k][3] = OutName(files[k])
                 \/ IsError(report[k][2]) /\ report[k][3] = <<>>
        /\ \A k \in 1..(Len(files) - 1) : LexLess(files[k], files[k + 1])
        /\ Range(files) = { n \in AllNames : fs0[n] # Absent /\ MatchesCsv(n) }

\* Whether the file at hand raises or not, the files after it get the same
\* report entries and the same outputs.
LaterFilesUnaffected ==
    (dpc = "loop" /\ idx < Len(files)) =>
        \A e1, e2 \in Envs : \A E \in [(idx + 2)..Len(files) -> Envs] :
            LET r1 == StepResult(fs, files[idx + 1], e1)
                r2 == StepResult(fs, files[idx + 1], e2)
                a == RunRest(r1.fs, idx + 2, E)
                b == RunRest(r2.fs, idx + 2, E)
            IN  (IsError(r1.entry[2]) /\ r2.entry[2] = "ok") =>
                    /\ a.entries = b.entries
                    /\ \A j \in (idx + 2)..Len(files) :
                          a.fs[OutName(files[j])] = b.fs[OutName(files[j])]

\* C2: every enumerated input still exists with the content it had when
\* the run started; only <stem>_fixed.csv outputs are written, and none of
\* them is an enumerated input.
C2_InputsUntouched ==
    /\ \A n \in Range(files) : fs[n] = fs0[n]
    /\ \A k \in 1..Len(writelog) :
          writelog[k] # NoName =>
              writelog[k] = OutName(files[k]) /\ writelog[k] \notin Range(files)
    /\ \A n \in AllNames : fs[n] # fs0[n] => n \in Written

\* C5: the run ends with one report entry per enumerated file, in sorted
\* order, "ok" with the output name or "error: ..." with an empty one, and a
\* file that raises changes neither the entries nor the outputs of the
\* files after it.
C5_ErrorIsolation == ReportComplete /\ LaterFilesUnaffected

\* The output name of a file is never its own name, and two enumerated
\* files never share an output name.
OutputNamesDistinct ==
    /\ \A n \in Range(files) : OutName(n) # n
    /\ \A m, n \in Range(files) : m # n => OutName(m) # OutName(n)

\* No step writes a file an earlier step of the run wrote, and at the end
\* the output of every file reported "ok" holds the transformation of the
\* rows read from that file.
OutputsKept ==
    /\ \A i, j \in 1..Len(writelog) :
          (i < j /\ writelog[i] # NoName) => writelog[i] # writelog[j]
    /\ dpc = "printed" =>
          \A k \in 1..Len(files) :
              report[k][2] = "ok" =>
                  fs[OutName(files[k])] = File(FixedRows(readlog[k]))

\* The files processed are those enumerated at the start.
EnumerationFixed == files = Enumerate(fs0) /\ Processed \subseteq Range(files)

\* C10: output paths do not collide within a run, no output is overwritten
\* later in the run, the output of an "ok" file holds the transformation of
\* what was read, the set of files processed is fixed at enumeration, and no
\* output written during the run is itself processed in that run.
C10_NoCollision ==
    /\ OutputNamesDistinct
    /\ OutputsKept
    /\ EnumerationFixed
    /\ Written \cap Processed = {}

====
